---- MODULE Spec2Model ----
(***************************************************************************)
(* Model of atlasplots.config_reader: read() parses a TOML configuration   *)
(* into a tree of dictionaries, _check_required() reports every missing    *)
(* required parameter and exits, _fill_missing() writes the defaults of    *)
(* the optional [[file]] parameters.                                       *)
(*                                                                         *)
(* A dictionary is a function whose DOMAIN is its set of keys.  A TOML     *)
(* value is a tagged tuple: <<"str", s>>, <<"float", s>> or <<"none">>     *)
(* (Python's None, which no TOML text can produce).                        *)
(*                                                                         *)
(* The interpreter is Python 3: read() skips _convert_to_string (line 88)  *)
(* and bcolor.error(), a plain function of the class, is callable.         *)
(***************************************************************************)
EXTENDS Integers, Sequences, FiniteSets, TLC

\* read(): the state of the path (source), the tree its text parses to
\* (config), the local `params`, the position in read (pc), the lines
\* printed, the status given to sys.exit and the exception that left read.
VARIABLES config, params, pc, stdout, exitStatus, source, error

readVars == <<config, params, pc, stdout, exitStatus, source, error>>

\* A script calling read() several times: the files on disk, the objects
\* allocated so far (a returned tree is the object heap[id]) and the
\* calls made, each with its path and what came out of it.
VARIABLES disk, heap, journal

callVars == <<disk, heap, journal>>

\* utils.py: the histograms (the fields of a TH1 the functions read or
\* write) and the call made on them, with its arguments and its outcome.
VARIABLES hists, hcall

histVars == <<hists, hcall>>

\* GetTTree: the call (its arguments and what the path names) and its
\* outcome.
VARIABLES gtCall, gtOut

treeVars == <<gtCall, gtOut>>

\* slim-trees: the command line and the old tree's entries (slimIn), the
\* frame of main (slim) and the entries of the new tree.
VARIABLES slimIn, slim, newtree

slimVars == <<slimIn, slim, newtree>>

\* GetMinimum and GetMaximum: the caller's histograms (rangeIn) and the call
\* made on them, with the argument passed and the value returned.
VARIABLES rangeIn, rangeOut

rangeVars == <<rangeIn, rangeOut>>

vars == <<readVars, callVars, histVars, treeVars, slimVars, rangeVars>>

\* What the actions of read() leave alone.
notRead == <<callVars, histVars, treeVars, slimVars, rangeVars>>

\* What the actions of the calling script leave alone.
notCalls == <<readVars, histVars, treeVars, slimVars, rangeVars>>

\* What the actions of the histogram functions leave alone.
notHist == <<readVars, callVars, treeVars, slimVars, rangeVars>>

\* What GetTTree leaves alone.
notTree == <<readVars, callVars, histVars, slimVars, rangeVars>>

\* What slim-trees leaves alone.
notSlim == <<readVars, callVars, histVars, treeVars, rangeVars>>

\* What GetMinimum and GetMaximum leave alone.
notRange == <<readVars, callVars, histVars, treeVars, slimVars>>

\* The parts of the state a program does not use.
NoRead ==
    /\ config = <<>> /\ params = <<>> /\ pc = "script" /\ stdout = <<>>
    /\ exitStatus = 0 /\ source = "toml" /\ error = "none"

NoCalls == disk = <<>> /\ heap = <<>> /\ journal = <<>>

NoHist == hists = <<>> /\ hcall = <<>>

NoTree == gtCall = <<>> /\ gtOut = <<>>

NoSlim == slimIn = <<>> /\ slim = <<>> /\ newtree = <<>>

NoRange == rangeIn = <<>> /\ rangeOut = <<>>

(* ---------------------------- bounds ----------------------------------- *)

MaxFiles == 3

MaxPlots == 2

(* ---------------------------- values ----------------------------------- *)

Str(s) == <<"str", s>>

Float(s) == <<"float", s>>

None == <<"none">>

SetItem(d, key, value) ==
    [k \in DOMAIN d \cup {key} |-> IF k = key THEN value ELSE d[k]]

(* ---------------------------- console.py ------------------------------- *)

bcolor_red == "\\033[91m"

bcolor_ERROR == bcolor_red

bcolor_bold == "\\033[1m"

bcolor_end == "\\033[0m"

bcolor_error == <<bcolor_ERROR, "Error", bcolor_end>>

(* ------------------------- config_reader.py ---------------------------- *)

\* The line print() writes, as the sequence of the pieces format() joins.
_print_missing(param, parent) ==
    bcolor_error \o <<"  ">> \o <<bcolor_bold, parent, bcolor_end>>
        \o <<" missing ">> \o <<bcolor_bold, param, bcolor_end>>
        \o <<" parameter">>

DefaultParent == "Config file"

\* The state of a run of _check_required: the lines printed and the flag.
Report(st, param, parent, flag) ==
    [out |-> Append(st.out, _print_missing(param, parent)), exit |-> flag]

\* CheckFileEntry with `elif 'tree' not in file`.
CheckFileEntry_Elif(st, file) ==
    IF "name" \notin DOMAIN file
    THEN Report(st, "name", "[[file]]", TRUE)
    ELSE IF "tree" \notin DOMAIN file
         THEN Report(st, "tree", "[[file]]", TRUE) ELSE st

\* CheckFileEntry without `exit = True` under the tree test.
CheckFileEntry_NoFlag(st, file) ==
    LET s1 == IF "name" \notin DOMAIN file
              THEN Report(st, "name", "[[file]]", TRUE) ELSE st
    IN  IF "tree" \notin DOMAIN file
        THEN Report(s1, "tree", "[[file]]", s1.exit) ELSE s1

\* Body of `for file in params['file']` (lines 117-122).
CheckFileEntry(st, file) ==
    LET s1 == IF "name" \notin DOMAIN file
              THEN Report(st, "name", "[[file]]", TRUE) ELSE st
    IN  IF "tree" \notin DOMAIN file
        THEN Report(s1, "tree", "[[file]]", TRUE) ELSE s1

\* Body of `for plot in params['plot']` (lines 129-130): the flag is kept.
CheckPlotEntry(st, plot) ==
    IF "name" \notin DOMAIN plot
    THEN Report(st, "name", "[[plot]]", st.exit) ELSE st

RECURSIVE ScanFiles(_, _, _)
ScanFiles(st, files, i) ==
    IF i > Len(files) THEN st
    ELSE ScanFiles(CheckFileEntry(st, files[i]), files, i + 1)

RECURSIVE ScanPlots(_, _, _)
ScanPlots(st, plots, i) ==
    IF i > Len(plots) THEN st
    ELSE ScanPlots(CheckPlotEntry(st, plots[i]), plots, i + 1)

\* CheckFileSection without `exit = True` under the 'file' test.
CheckFileSection_NoFlag(st, p) ==
    IF "file" \notin DOMAIN p
    THEN Report(st, "file", DefaultParent, st.exit)
    ELSE ScanFiles(st, p["file"], 1)

\* CheckFileSection with `if not params.get('file')`.
CheckFileSection_NonEmpty(st, p) ==
    IF "file" \notin DOMAIN p \/ p["file"] = <<>>
    THEN Report(st, "file", DefaultParent, TRUE)
    ELSE ScanFiles(st, p["file"], 1)

CheckFileSection(st, p) ==
    IF "file" \notin DOMAIN p
    THEN Report(st, "file", DefaultParent, TRUE)
    ELSE ScanFiles(st, p["file"], 1)

CheckPlotSection(st, p) ==
    IF "plot" \notin DOMAIN p
    THEN Report(st, "plot", DefaultParent, TRUE)
    ELSE ScanPlots(st, p["plot"], 1)

\* _check_required leaving as soon as the [[file]] part found a problem.
_check_required_EarlyExit(p) ==
    LET s1 == CheckFileSection([out |-> <<>>, exit |-> FALSE], p)
    IN  IF s1.exit THEN s1 ELSE CheckPlotSection(s1, p)

\* The lines printed and the value of `exit` at line 132.
_check_required(p) ==
    CheckPlotSection(CheckFileSection([out |-> <<>>, exit |-> FALSE], p), p)

\* FillEntry with `elif 'scale' not in file`.
FillEntry_Elif(file) ==
    LET f1 == IF "label" \notin DOMAIN file
              THEN SetItem(file, "label", file["name"]) ELSE file
        f2 == IF "color" \notin DOMAIN f1
              THEN SetItem(f1, "color", <<"str", "#000000">>) ELSE f1
    IN  IF "fill" \notin DOMAIN f2
        THEN SetItem(f2, "fill", <<"none">>)
        ELSE IF "scale" \notin DOMAIN f2
             THEN SetItem(f2, "scale", <<"float", "1.0">>) ELSE f2

\* FillEntry with `if not file.get('scale')`.
FillEntry_Falsy(file) ==
    LET f1 == IF "label" \notin DOMAIN file
              THEN SetItem(file, "label", file["name"]) ELSE file
        f2 == IF "color" \notin DOMAIN f1
              THEN SetItem(f1, "color", <<"str", "#000000">>) ELSE f1
        f3 == IF "fill" \notin DOMAIN f2
              THEN SetItem(f2, "fill", <<"none">>) ELSE f2
    IN  IF "scale" \notin DOMAIN f3 \/ f3["scale"] = <<"float", "0.0">>
        THEN SetItem(f3, "scale", <<"float", "1.0">>) ELSE f3

\* Body of `for file in params['file']` in _fill_missing (lines 165-175).
\* file['name'] of an entry without a name raises KeyError.
FillEntry(file) ==
    LET f1 == IF "label" \notin DOMAIN file
              THEN SetItem(file, "label", file["name"]) ELSE file
        f2 == IF "color" \notin DOMAIN f1
              THEN SetItem(f1, "color", Str("#000000")) ELSE f1
        f3 == IF "fill" \notin DOMAIN f2
              THEN SetItem(f2, "fill", None) ELSE f2
    IN  IF "scale" \notin DOMAIN f3
        THEN SetItem(f3, "scale", Float("1.0")) ELSE f3

FillRaises(file) == "label" \notin DOMAIN file /\ "name" \notin DOMAIN file

\* FillFiles taking the default label from the first entry of the array.
RECURSIVE FillFiles_FirstName(_, _)
FillFiles_FirstName(files, i) ==
    IF i > Len(files) THEN [files |-> files, raised |-> FALSE]
    ELSE IF FillRaises(files[i]) THEN [files |-> files, raised |-> TRUE]
    ELSE LET f == IF "label" \notin DOMAIN files[i]
                  THEN SetItem(files[i], "label", files[1]["name"])
                  ELSE files[i]
         IN  FillFiles_FirstName([files EXCEPT ![i] = FillEntry(f)], i + 1)

\* The entries as the loop leaves them: it stops at the first KeyError.
RECURSIVE FillFiles(_, _)
FillFiles(files, i) ==
    IF i > Len(files) THEN [files |-> files, raised |-> FALSE]
    ELSE IF FillRaises(files[i]) THEN [files |-> files, raised |-> TRUE]
    ELSE FillFiles([files EXCEPT ![i] = FillEntry(files[i])], i + 1)

\* _fill_missing filling the [[plot]] entries as well.
_fill_missing_Plots(p) ==
    IF "file" \notin DOMAIN p
    THEN [params |-> p, raised |-> TRUE]
    ELSE LET r == FillFiles(p["file"], 1)
             q == FillFiles(p["plot"], 1)
         IN  [params |-> [p EXCEPT !["file"] = r.files, !["plot"] = q.files],
              raised |-> r.raised \/ q.raised]

_fill_missing(p) ==
    IF "file" \notin DOMAIN p
    THEN [params |-> p, raised |-> TRUE]
    ELSE LET r == FillFiles(p["file"], 1)
         IN  [params |-> [p EXCEPT !["file"] = r.files], raised |-> r.raised]

(* --------------------------- the inputs -------------------------------- *)

FileName(i) == "file" \o ToString(i) \o ".root"

PlotName(i) == "plot" \o ToString(i)

\* What the i-th [[file]] table gives for a key it has.
FileValue(i, k) ==
    CASE k = "name"  -> Str(FileName(i))
      [] k = "tree"  -> Str("nominal")
      [] k = "label" -> Str("Data")
      [] k = "color" -> Str("#1F77B4")
      [] k = "fill"  -> Str("#FF7F0E")
      [] k = "scale" -> Float("0.0")

PlotValue(i, k) ==
    CASE k = "name"  -> Str(PlotName(i))
      [] k = "label" -> Str("pT [GeV]")
      [] k = "nbins" -> Str("50")

RequiredFileKeys == {"name", "tree"}

OptionalFileKeys == {"label", "color", "fill", "scale"}

FileKeys == RequiredFileKeys \cup OptionalFileKeys

\* The i-th [[file]] table with the keys K, the i-th [[plot]] table likewise.
FileEntry(i, K) == [k \in K |-> FileValue(i, k)]

PlotEntry(i, K) == [k \in K |-> PlotValue(i, k)]

\* The key sets of the tables beside the varied one: a minimal table, a
\* complete one, and one with a name but no tree.
PlainFileKeySets == {RequiredFileKeys, FileKeys, {"name"}}

PlotKeySets == {{"name"}, {"name", "label", "nbins"}, {"label"}}

\* The [[file]] arrays: position j holds a table with any set of the six
\* keys, the other positions hold plain ones.
FileArrays ==
    {<<>>} \cup
    UNION {{[i \in 1..n |-> FileEntry(i, IF i = j THEN K ELSE g[i])] :
               K \in SUBSET FileKeys, g \in [1..n -> PlainFileKeySets],
               j \in 1..n} : n \in 1..MaxFiles}

PlotArrays ==
    UNION {{[i \in 1..n |-> PlotEntry(i, g[i])] : g \in [1..n -> PlotKeySets]} :
           n \in 0..MaxPlots}

\* The tree toml.loads gives for a text with the sections K.
Config(K, fa, pa) == [k \in K |-> IF k = "file" THEN fa ELSE pa]

\* read with `try: ... except Exception: params = {}` around lines 82-85.
OpenAndLoad_Swallow(src, cfg) ==
    IF src = "toml" THEN [error |-> "none", params |-> cfg]
    ELSE [error |-> "none", params |-> [k \in {} |-> <<>>]]

\* read, lines 82-85: open() raises for an unreadable path, toml.loads
\* raises for a text that is not TOML, and `params` stays unbound.
OpenAndLoad(src, cfg) ==
    CASE src = "unreadable" -> [error |-> "IOError", params |-> <<>>]
      [] src = "malformed"  -> [error |-> "TomlDecodeError", params |-> <<>>]
      [] src = "toml"       -> [error |-> "none", params |-> cfg]

(* ---------------------------- the machine ------------------------------ *)

Init ==
    /\ \/ /\ source = "toml"
          /\ \/ \E fa \in FileArrays, pa \in PlotArrays :
                   config = Config({"file", "plot"}, fa, pa)
             \/ \E fa \in FileArrays : config = Config({"file"}, fa, <<>>)
             \/ \E pa \in PlotArrays : config = Config({"plot"}, <<>>, pa)
             \/ config = Config({}, <<>>, <<>>)
       \/ /\ source \in {"unreadable", "malformed"}
          /\ config = Config({}, <<>>, <<>>)
    /\ error = "none"
    /\ params = <<>>
    /\ pc = "start"
    /\ stdout = <<>>
    /\ exitStatus = 0
    /\ NoCalls /\ NoHist /\ NoTree /\ NoSlim /\ NoRange

\* read, lines 82-85: the text is read and parsed.
Parse ==
    /\ pc = "start"
    /\ LET r == OpenAndLoad(source, config)
       IN  /\ params' = r.params
           /\ error' = r.error
           /\ pc' = IF r.error = "none" THEN "parsed" ELSE "raised"
    /\ UNCHANGED <<config, stdout, exitStatus, source, notRead>>

\* read, line 91.
CheckRequired ==
    /\ pc = "parsed"
    /\ LET st == _check_required(params)
       IN  /\ stdout' = stdout \o st.out
           /\ pc' = IF st.exit THEN "exited" ELSE "checked"
           /\ exitStatus' = IF st.exit THEN 1 ELSE exitStatus
    /\ UNCHANGED <<config, params, source, error, notRead>>

\* read, lines 92-94.
FillMissing ==
    /\ pc = "checked"
    /\ LET r == _fill_missing(params)
       IN  /\ params' = r.params
           /\ pc' = IF r.raised THEN "raised" ELSE "returned"
           /\ error' = IF r.raised THEN "KeyError" ELSE error
    /\ UNCHANGED <<config, stdout, exitStatus, source, notRead>>

Next == Parse \/ CheckRequired \/ FillMissing

Spec == Init /\ [][Next]_vars

(* ----------------------- a script calling read() ----------------------- *)

MaxCalls == 3

Paths == {"a.toml", "b.toml"}

\* What one call of read() does with a file: lines 82-94 in one piece.
ReadOutcome(f) ==
    LET r == OpenAndLoad(f.source, f.config)
    IN  IF r.error # "none"
        THEN [kind |-> "raised", error |-> r.error, out |-> <<>>, tree |-> <<>>]
        ELSE LET st == _check_required(r.params)
             IN  IF st.exit
                 THEN [kind |-> "exited", error |-> "none", out |-> st.out,
                       tree |-> <<>>]
                 ELSE LET m == _fill_missing(r.params)
                      IN  IF m.raised
                          THEN [kind |-> "raised", error |-> "KeyError",
                                out |-> st.out, tree |-> <<>>]
                          ELSE [kind |-> "returned", error |-> "none",
                                out |-> st.out, tree |-> m.params]

\* The calls that returned the tree of `path`.
ReturnedFor(jr, path) ==
    {k \in DOMAIN jr : jr[k].path = path /\ jr[k].kind = "returned"}

\* read keeping the trees it parsed in a module-level dictionary by path.
NewObject_Cached(hp, jr, path) ==
    IF ReturnedFor(jr, path) # {}
    THEN jr[CHOOSE k \in ReturnedFor(jr, path) : TRUE].obj
    ELSE Len(hp) + 1

\* The object `params` names: toml.loads builds a new one in every call.
NewObject(hp, jr, path) == Len(hp) + 1

\* The files considered: a minimal one, one with two entries, one whose
\* plot entry has no name, one without tree, one without file section, and
\* one that is not TOML.
DiskFiles ==
    LET f1 == FileEntry(1, RequiredFileKeys)
        f2 == FileEntry(2, {"name", "tree", "color"})
        p1 == PlotEntry(1, {"name"})
    IN  {[source |-> "toml", config |-> Config({"file", "plot"}, <<f1>>, <<p1>>)],
         [source |-> "toml", config |-> Config({"file", "plot"}, <<f1, f2>>, <<p1>>)],
         [source |-> "toml",
          config |-> Config({"file", "plot"}, <<f2>>, <<PlotEntry(1, {"label"})>>)],
         [source |-> "toml",
          config |-> Config({"file", "plot"}, <<FileEntry(1, {"name"})>>, <<p1>>)],
         [source |-> "toml", config |-> Config({"plot"}, <<>>, <<p1>>)],
         [source |-> "malformed", config |-> Config({}, <<>>, <<>>)]}

\* The process runs until a call of read leaves through sys.exit.
Alive == \A k \in DOMAIN journal : journal[k].kind # "exited"

InitCalls ==
    /\ disk \in [Paths -> DiskFiles]
    /\ heap = <<>>
    /\ journal = <<>>
    /\ NoRead /\ NoHist /\ NoTree /\ NoSlim /\ NoRange

\* params = config.read(path)
Load(path) ==
    /\ Alive
    /\ Len(journal) < MaxCalls
    /\ LET o  == ReadOutcome(disk[path])
           id == NewObject(heap, journal, path)
       IN  IF o.kind = "returned"
           THEN /\ heap' = IF id > Len(heap) THEN Append(heap, o.tree) ELSE heap
                /\ journal' = Append(journal,
                       [path |-> path, kind |-> o.kind, error |-> o.error,
                        out |-> o.out, obj |-> id, tree |-> heap'[id]])
           ELSE /\ heap' = heap
                /\ journal' = Append(journal,
                       [path |-> path, kind |-> o.kind, error |-> o.error,
                        out |-> o.out, obj |-> 0, tree |-> <<>>])
    /\ UNCHANGED <<disk, notCalls>>

\* The handle GetTTree gives for the tree named in an entry.
Handle(file) == <<"TTree", file["tree"][2]>>

\* ratio_plot.py, lines 101-105: the driver replaces the tree name of every
\* entry of a returned tree by the tree itself.
LoadTrees(id) ==
    /\ Alive
    /\ id \in DOMAIN heap
    /\ \E i \in DOMAIN heap[id]["file"] : heap[id]["file"][i]["tree"][1] = "str"
    /\ LET files == heap[id]["file"]
           loaded == [i \in DOMAIN files |->
                        [files[i] EXCEPT !["tree"] = Handle(files[i])]]
       IN  heap' = [heap EXCEPT ![id]["file"] = loaded]
    /\ UNCHANGED <<disk, journal, notCalls>>

NextCalls ==
    \/ \E path \in Paths : Load(path)
    \/ \E id \in DOMAIN heap : LoadTrees(id)

SpecCalls == InitCalls /\ [][NextCalls]_vars

(* ------------------------------ utils.py ------------------------------- *)

MaxHists == 3

\* A number given for an optional argument (None is the other case).
Num(n) == <<"num", n>>

\* Python's truth value of an optional numeric argument.
Truthy(x) == x # None /\ x[2] # 0

\* Texts are sequences of characters, "" the empty one.
IsSpace(c) == c = " "

IsWord(c) == c \notin {" ", "[", "]", "/"}

\* '{:g}'.format(n) for a whole number n >= 0: its decimal digits.
RECURSIVE FormatG(_)
FormatG(n) ==
    LET d == <<"0", "1", "2", "3", "4", "5", "6", "7", "8", "9">>[(n % 10) + 1]
    IN  IF n < 10 THEN <<d>> ELSE Append(FormatG(n \div 10), d)

\* group(1) of re.compile(r".*\[(.*\w.*)\]\s*$").search(xtitle), or "" when
\* there is no match: the text between the last `[` that has a word
\* character after it and the `]` that only white space follows.
ParseUnits(xtitle) ==
    LET closing == {r \in DOMAIN xtitle :
                      /\ xtitle[r] = "]"
                      /\ \A j \in (r + 1)..Len(xtitle) : IsSpace(xtitle[j])}
        opening(r) == {l \in 1..(r - 1) :
                         /\ xtitle[l] = "["
                         /\ \E j \in (l + 1)..(r - 1) : IsWord(xtitle[j])}
    IN  IF closing = {} THEN <<>>
        ELSE LET r == CHOOSE x \in closing : TRUE
             IN  IF opening(r) = {} THEN <<>>
                 ELSE LET l == CHOOSE x \in opening(r) :
                                   \A y \in opening(r) : y <= x
                      IN  SubSeq(xtitle, l + 1, r - 1)

\* FormatHistograms, lines 294-301.
EffectiveUnits(units, xtitle) ==
    IF units = <<>> /\ xtitle # <<>> THEN ParseUnits(xtitle) ELSE units

\* " / {:g} {}".format(width, units)
BinSuffix(width, units) == <<" ", "/", " ">> \o FormatG(width) \o <<" ">> \o units

\* GetMaximum, lines 410-418.
RECURSIVE MaxScan(_, _, _)
MaxScan(hs, i, histmin) ==
    IF i > Len(hs) THEN histmin
    ELSE MaxScan(hs, i + 1,
                 IF hs[i].maximum > histmin THEN hs[i].maximum ELSE histmin)

GetMaximum(hs) == MaxScan(hs, 1, hs[1].maximum)

\* SetYRange, lines 440-446.
SetYRange(hs, max, min) ==
    LET plotmax == IF max = None THEN GetMaximum(hs) ELSE max[2]
    IN  [i \in DOMAIN hs |-> [hs[i] EXCEPT !.rangeMin = min, !.rangeMax = plotmax]]

\* Body of `for hist in hists` in FormatHistograms (lines 304-318) for the
\* current value yt of the local `ytitle`: the histogram as it is left.
FormatOne(h, a, yt, units) ==
    LET h1 == IF a.title # <<>> THEN [h EXCEPT !.title = a.title] ELSE h
        h2 == IF a.xtitle # <<>> THEN [h1 EXCEPT !.xtitle = a.xtitle] ELSE h1
        h3 == IF yt # <<>>
              THEN [h2 EXCEPT !.ytitle = yt \o BinSuffix(h.binWidth, units)]
              ELSE h2
        h4 == IF Truthy(a.xtitle_offset)
              THEN [h3 EXCEPT !.xoffset = a.xtitle_offset[2]] ELSE h3
    IN  IF Truthy(a.ytitle_offset)
        THEN [h4 EXCEPT !.xoffset = a.ytitle_offset[2]] ELSE h4

\* The loop of lines 303-318: `ytitle +=` changes the local for the
\* histograms that follow.
RECURSIVE FormatLoop(_, _, _, _, _)
FormatLoop(hs, i, a, yt, units) ==
    IF i > Len(hs) THEN hs
    ELSE FormatLoop([hs EXCEPT ![i] = FormatOne(hs[i], a, yt, units)], i + 1, a,
                    IF yt # <<>> THEN yt \o BinSuffix(hs[i].binWidth, units)
                    ELSE yt,
                    units)

\* FormatHistograms(hists, ...), lines 287-318.
FormatHists(hs, a) ==
    FormatLoop(SetYRange(hs, a.max, a.min), 1, a, a.ytitle,
               EffectiveUnits(a.units, a.xtitle))

\* TColor::GetColorTransparent: the number of another colour.
ColorTransparent(c, alpha) == 10000 + 100 * c + alpha

(* A transparency is given in tenths: 10 is alpha = 1, 5 is alpha = 0.5. *)
Opaque == 10

\* SetHistogramLine, lines 216-219.  SetLineStyle(alpha) takes alpha = 1 as
\* the style 1; for a fraction PyROOT either refuses the float (`conv` is
\* "TypeError") or cuts it to 0 (`conv` is "truncate").
SetLine(h, a, conv) ==
    LET h1 == [h EXCEPT !.lineColor = a.color, !.lineWidth = a.width,
                        !.lineStyle = a.style]
    IN  IF a.alpha % 10 = 0
        THEN [hist |-> [h1 EXCEPT !.lineStyle = a.alpha \div 10], raised |-> "none"]
        ELSE IF conv = "TypeError"
             THEN [hist |-> h1, raised |-> "TypeError"]
             ELSE [hist |-> [h1 EXCEPT !.lineStyle = a.alpha \div 10],
                   raised |-> "none"]

\* SetHistogramFill, lines 244-253.  SetFillColorAlpha(None, alpha) is
\* either refused by PyROOT or takes None as the colour 0.
SetFill(h, a, conv) ==
    LET h1 == IF a.style # None THEN [h EXCEPT !.fillStyle = a.style[2]] ELSE h
        h2 == IF a.color # None
              THEN [h1 EXCEPT !.fillColor = a.color[2]]
              ELSE [h1 EXCEPT !.fillColor = h1.lineColor]
    IN  IF a.alpha # Opaque
        THEN IF a.color # None
             THEN [hist |-> [h2 EXCEPT !.fillColor =
                                ColorTransparent(a.color[2], a.alpha)],
                   raised |-> "none"]
             ELSE IF conv = "TypeError"
                  THEN [hist |-> h2, raised |-> "TypeError"]
                  ELSE [hist |-> [h2 EXCEPT !.fillColor =
                                     ColorTransparent(0, a.alpha)],
                        raised |-> "none"]
        ELSE [hist |-> h2, raised |-> "none"]

(* The inputs. *)

Events == <<"E", "v", "e", "n", "t", "s">>

Titles == {<<>>, <<"Z">>}

XTitles == {<<>>, <<"e", "t", "a">>, <<"p", "T", " ", "[", "G", "e", "V", "]">>}

YTitles == {<<>>, Events}

UnitTexts == {<<>>, <<"c", "m">>}

Conversions == {"TypeError", "truncate"}

\* A histogram as TH1F and the ROOT defaults leave it.
TH1(width, maximum, color) ==
    [title |-> <<>>, xtitle |-> <<>>, ytitle |-> <<>>, xoffset |-> 10,
     yoffset |-> 10, binWidth |-> width, minimum |-> 0, maximum |-> maximum,
     rangeMin |-> 0, rangeMax |-> maximum, lineColor |-> color, lineWidth |-> 1,
     lineStyle |-> 1, fillColor |-> 0, fillStyle |-> 1001]

Histograms == {TH1(w, m, c) : w \in {5, 10}, m \in {3, 7}, c \in {1, 4}}

InitHist ==
    /\ \E n \in 1..MaxHists : hists \in [1..n -> Histograms]
    /\ hcall = [op |-> "none"]
    /\ NoRead /\ NoCalls /\ NoTree /\ NoSlim /\ NoRange

FormatHistograms ==
    /\ hcall.op = "none"
    /\ \E title \in Titles, xtitle \in XTitles, ytitle \in YTitles,
          xo \in {None, Num(14)}, yo \in {None, Num(20)},
          units \in UnitTexts, max \in {None, Num(9)} :
          LET a == [title |-> title, xtitle |-> xtitle, ytitle |-> ytitle,
                    xtitle_offset |-> xo, ytitle_offset |-> yo,
                    units |-> units, max |-> max, min |-> 0]
          IN  /\ hists' = FormatHists(hists, a)
              /\ hcall' = [op |-> "FormatHistograms", args |-> a, before |-> hists,
                           raised |-> "none"]
    /\ UNCHANGED notHist

SetHistogramLine ==
    /\ hcall.op = "none"
    /\ \E k \in DOMAIN hists, color \in {1, 4}, width \in {1, 2},
          style \in {1, 2}, alpha \in {Opaque, 5}, conv \in Conversions :
          LET a == [hist |-> k, color |-> color, width |-> width,
                    style |-> style, alpha |-> alpha]
              r == SetLine(hists[k], a, conv)
          IN  /\ hists' = [hists EXCEPT ![k] = r.hist]
              /\ hcall' = [op |-> "SetHistogramLine", args |-> a, before |-> hists,
                           raised |-> r.raised]
    /\ UNCHANGED notHist

SetHistogramFill ==
    /\ hcall.op = "none"
    /\ \E k \in DOMAIN hists, color \in {None, Num(2)},
          style \in {None, Num(3004)}, alpha \in {Opaque, 5},
          conv \in Conversions :
          LET a == [hist |-> k, color |-> color, style |-> style, alpha |-> alpha]
              r == SetFill(hists[k], a, conv)
          IN  /\ hists' = [hists EXCEPT ![k] = r.hist]
              /\ hcall' = [op |-> "SetHistogramFill", args |-> a, before |-> hists,
                           raised |-> r.raised]
    /\ UNCHANGED notHist

NextHist == FormatHistograms \/ SetHistogramLine \/ SetHistogramFill

SpecHist == InitHist /\ [][NextHist]_vars

(* ------------------------- utils.py: GetTTree -------------------------- *)

\* str.endswith on texts given as sequences of characters.
EndsWith(str, suffix) ==
    /\ Len(str) >= Len(suffix)
    /\ SubSeq(str, Len(str) - Len(suffix) + 1, Len(str)) = suffix

DotRoot == <<".", "r", "o", "o", "t">>

\* What a path can name: nothing, a directory, or a ROOT file with the
\* keys of some trees.
TreeNames == {"nominal", "syst", "truth"}

PathKinds ==
    {[kind |-> "missing", keys |-> {}], [kind |-> "directory", keys |-> {}]}
    \cup {[kind |-> "rootfile", keys |-> K] : K \in SUBSET TreeNames}

FileNames ==
    {<<"d">> \o DotRoot, <<"m", "c">> \o DotRoot, <<"d", "i", "r">>,
     <<"r", "u", "n", "s", "/">>, <<"d", "r", "o", "o", "t">>}

\* GetTTree, lines 65-102, with what it prints.  In the `else` branch the
\* local `file` is never bound, so `return file, tree` raises.
GetTTreeOutcome(c) ==
    IF EndsWith(c.filename, DotRoot)
    THEN IF c.path.kind # "rootfile"
         THEN [kind |-> "exited", status |-> 1, error |-> "none",
               out |-> <<"Reading in tree", "Failed">>, file |-> "null",
               tree |-> "null"]
         ELSE IF c.treename \notin c.path.keys
              THEN [kind |-> "exited", status |-> 1, error |-> "none",
                    out |-> <<"Reading in tree", "Failed", "Tree not found",
                              "Did you mean">>,
                    file |-> "TFile", tree |-> "null"]
              ELSE [kind |-> "returned", status |-> 0, error |-> "none",
                    out |-> <<"Reading in tree", "OK">>, file |-> "TFile",
                    tree |-> "TTree"]
    ELSE [kind |-> "raised", status |-> 0, error |-> "UnboundLocalError",
          out |-> <<>>, file |-> "unbound", tree |-> "TChain"]

InitTree ==
    /\ \E f \in FileNames, t \in TreeNames, p \in PathKinds :
          gtCall = [filename |-> f, treename |-> t, path |-> p]
    /\ gtOut = [kind |-> "none"]
    /\ NoRead /\ NoCalls /\ NoHist /\ NoSlim /\ NoRange

GetTTree ==
    /\ gtOut.kind = "none"
    /\ gtOut' = GetTTreeOutcome(gtCall)
    /\ UNCHANGED <<gtCall, notTree>>

NextTree == GetTTree

SpecTree == InitTree /\ [][NextTree]_vars

(* ------------------------ slim_trees.py: main -------------------------- *)

MaxEntries == 3
MaxTrim == 3

\* Python's s[start:stop] on a text, with negative indices counted from
\* the end and both ends clipped to the text.
SliceIndex(n, len) ==
    IF n < 0 THEN (IF n + len < 0 THEN 0 ELSE n + len)
    ELSE (IF n > len THEN len ELSE n)

Slice(str, start, stop) ==
    SubSeq(str, SliceIndex(start, Len(str)) + 1, SliceIndex(stop, Len(str)))

RootText == <<"r", "o", "o", "t">>
SlimRootText == <<".", "s", "l", "i", "m", ".", "r", "o", "o", "t">>

\* Lines 72-79: the output file name, or None when the program gives up.
OutputName(input, output) ==
    IF output # None THEN output
    ELSE IF Slice(input, Len(input) - 4, Len(input)) = RootText
         THEN Slice(input, 0, Len(input) - 5) \o SlimRootText
         ELSE None

\* Lines 110-114: the number of entries the loop will copy.
TrimTo_NoClamp(trim, nentry) == trim
TrimTo(trim, nentry) == IF nentry < trim THEN nentry ELSE trim

\* TTree.GetEntry(i), i counted from 0: loads entry i into the buffers the
\* clone shares, and leaves them alone when there is no such entry.
GetEntry(entries, i, buffer) ==
    IF i >= 0 /\ i < Len(entries) THEN entries[i + 1] ELSE buffer

\* The command lines and old trees tried.
InputNames ==
    {<<"d">> \o DotRoot, <<"d">> \o RootText, <<"d", ".", "t", "x", "t">>,
     RootText, <<"t">>, DotRoot}

OutputNames == {None, <<"o">> \o DotRoot}

Trims == {None} \cup {Num(n) : n \in -1 .. MaxTrim}

OldTrees == {[k \in 1 .. n |-> 100 + k] : n \in 0 .. MaxEntries}

\* What TFile.Open(args.input) and oldfile.Get(args.tree) find.
OldFiles == {"tree", "nofile", "notree"}

InitSlim ==
    /\ \E inp \in InputNames, o \in OutputNames, t \in Trims,
          e \in OldTrees, f \in OldFiles :
          slimIn = [input |-> inp, output |-> o, trim |-> t, entries |-> e,
                    oldfile |-> f]
    /\ slim = [pc |-> "start", outname |-> None, trim |-> 0, i |-> 0,
               buffer |-> 0, out |-> <<>>, status |-> 0, error |-> "none",
               opened |-> {}, written |-> FALSE]
    /\ newtree = <<>>
    /\ NoRead /\ NoCalls /\ NoHist /\ NoTree /\ NoRange

\* Lines 72-79.
NameOutput ==
    /\ slim.pc = "start"
    /\ LET name == OutputName(slimIn.input, slimIn.output)
       IN  slim' = IF name = None
                   THEN [slim EXCEPT !.pc = "exited", !.status = 1,
                           !.out = Append(@, "ERROR Problem getting output file name")]
                   ELSE [slim EXCEPT !.pc = "named", !.outname = name]
    /\ UNCHANGED <<slimIn, newtree, notSlim>>

\* Lines 84-98: a null file or a null tree is used without a test.
ReadOld ==
    /\ slim.pc = "named"
    /\ slim' = IF slimIn.oldfile = "tree"
               THEN [slim EXCEPT !.pc = "read", !.opened = @ \cup {"old"},
                       !.out = Append(@, "Reading in OK")]
               ELSE [slim EXCEPT !.pc = "raised", !.error = "ReferenceError",
                       !.opened = IF slimIn.oldfile = "notree"
                                  THEN @ \cup {"old"} ELSE @,
                       !.out = Append(@, "Reading in")]
    /\ UNCHANGED <<slimIn, newtree, notSlim>>

\* Lines 101-106: without -t, CloneTree() copies every entry.
CloneAll ==
    /\ slim.pc = "read"
    /\ slimIn.trim = None
    /\ newtree' = slimIn.entries
    /\ slim' = [slim EXCEPT !.pc = "written", !.opened = @ \cup {"new"},
                   !.written = TRUE]
    /\ UNCHANGED <<slimIn, notSlim>>

\* Lines 101, 108-116: the entry count is checked, CloneTree(0) makes an
\* empty tree.
StartTrim ==
    /\ slim.pc = "read"
    /\ slimIn.trim # None
    /\ LET nentry == Len(slimIn.entries)
           trim == slimIn.trim[2]
       IN  slim' = [slim EXCEPT !.pc = "loop", !.i = 0,
                      !.trim = TrimTo(trim, nentry),
                      !.opened = @ \cup {"new"},
                      !.out = IF nentry < trim
                              THEN @ \o <<"WARNING Attempting to trim",
                                          "Inlcuding all entries in new tree">>
                              ELSE @]
    /\ newtree' = <<>>
    /\ UNCHANGED <<slimIn, notSlim>>

\* Lines 118-120: one turn of the loop.
CopyEntry ==
    /\ slim.pc = "loop"
    /\ slim.i < slim.trim
    /\ LET loaded == GetEntry(slimIn.entries, slim.i, slim.buffer)
       IN  /\ newtree' = Append(newtree, loaded)
           /\ slim' = [slim EXCEPT !.i = @ + 1, !.buffer = loaded]
    /\ UNCHANGED <<slimIn, notSlim>>

\* Line 122, after the loop.
WriteTrimmed ==
    /\ slim.pc = "loop"
    /\ slim.i >= slim.trim
    /\ slim' = [slim EXCEPT !.pc = "written", !.written = TRUE]
    /\ UNCHANGED <<slimIn, newtree, notSlim>>

\* Lines 124-126.
PrintTree ==
    /\ slim.pc = "written"
    /\ slim' = [slim EXCEPT !.pc = "done",
                   !.out = Append(@, "Writing new tree to")]
    /\ UNCHANGED <<slimIn, newtree, notSlim>>

NextSlim ==
    \/ NameOutput
    \/ ReadOld
    \/ CloneAll
    \/ StartTrim
    \/ CopyEntry
    \/ WriteTrimmed
    \/ PrintTree

SpecSlim == InitSlim /\ [][NextSlim]_vars

(* ------------------ utils.py: GetMinimum, GetMaximum ------------------- *)

MaxList == 3

\* An argument is a Python list of histograms or one histogram on its own.
ListOf(items) == [kind |-> "list", items |-> items]
Single(item) == [kind |-> "TH1", item |-> item]

\* Lines 378-379 and 406-407: `if type(hists) is not list: hists = [hists]`.
AsList(hs) == IF hs.kind # "list" THEN <<hs.item>> ELSE hs.items

\* GetMinimum, lines 381-390.
RECURSIVE MinScan(_, _, _)
MinScan(hs, i, histmin) ==
    IF i > Len(hs) THEN histmin
    ELSE MinScan(hs, i + 1,
                 IF hs[i].minimum < histmin THEN hs[i].minimum ELSE histmin)

GetMinimum_First(hs) == hs[1].minimum
GetMinimum(hs) == MinScan(hs, 1, hs[1].minimum)

\* The histograms tried: what TH1.GetMinimum() and TH1.GetMaximum() give.
RangeHists ==
    {[minimum |-> lo, maximum |-> hi] : lo \in {-1, 0, 2}, hi \in {3, 7}}

RangeLists ==
    UNION {[1 .. n -> RangeHists] : n \in 1 .. MaxList}

\* The caller's histograms passed in another order.
Reordered(hs, perm) ==
    IF hs.kind # "list" THEN hs
    ELSE ListOf([i \in 1 .. Len(hs.items) |-> hs.items[perm[i]]])

Orders(hs) ==
    IF hs.kind # "list" THEN {<<1>>}
    ELSE Permutations(1 .. Len(hs.items))

InitRange ==
    /\ rangeIn \in {ListOf(l) : l \in RangeLists}
                    \cup {Single(h) : h \in RangeHists}
    /\ rangeOut = [op |-> "none"]
    /\ NoRead /\ NoCalls /\ NoHist /\ NoTree /\ NoSlim

GetMinimumCall ==
    /\ rangeOut.op = "none"
    /\ \E perm \in Orders(rangeIn) :
          LET passed == Reordered(rangeIn, perm)
          IN  rangeOut' = [op |-> "GetMinimum", passed |-> passed,
                           value |-> GetMinimum(AsList(passed))]
    /\ UNCHANGED <<rangeIn, notRange>>

GetMaximumCall ==
    /\ rangeOut.op = "none"
    /\ \E perm \in Orders(rangeIn) :
          LET passed == Reordered(rangeIn, perm)
          IN  rangeOut' = [op |-> "GetMaximum", passed |-> passed,
                           value |-> GetMaximum(AsList(passed))]
    /\ UNCHANGED <<rangeIn, notRange>>

NextRange == GetMinimumCall \/ GetMaximumCall

SpecRange == InitRange /\ [][NextRange]_vars

(* ---------------------------- properties ------------------------------- *)

\* _check_required has run: it returned or it left through sys.exit.
Checked ==
    \/ pc \in {"checked", "exited", "returned"}
    \/ pc = "raised" /\ error = "KeyError"

HasFile == "file" \in DOMAIN config

HasPlot == "plot" \in DOMAIN config

FileIdx == IF HasFile THEN DOMAIN config["file"] ELSE {}

PlotIdx == IF HasPlot THEN DOMAIN config["plot"] ELSE {}

\* The parent and the parameter a printed line names.
LineParent(line) == line[6]

LineParam(line) == line[10]

Lines(param, parent) ==
    {n \in DOMAIN stdout :
        LineParam(stdout[n]) = param /\ LineParent(stdout[n]) = parent}

WellFormedPlot ==
    HasPlot /\ \A i \in PlotIdx : "name" \in DOMAIN config["plot"][i]

WellFormedFile ==
    HasFile /\ \A i \in FileIdx : RequiredFileKeys \subseteq DOMAIN config["file"][i]

\* C1: when read returns, every entry of the returned `file` sequence has
\* the four optional keys label, color, fill and scale.
C1_AllOptionalKeysPresent ==
    pc = "returned" =>
        \A i \in DOMAIN params["file"] :
            OptionalFileKeys \subseteq DOMAIN params["file"][i]

\* read returned three entries: one given without any optional key, and
\* one given with some of them but not all.
C1_Witness ==
    /\ pc = "returned"
    /\ Len(params["file"]) = 3
    /\ \E i \in FileIdx : DOMAIN config["file"][i] \cap OptionalFileKeys = {}
    /\ \E i \in FileIdx :
           DOMAIN config["file"][i] \cap OptionalFileKeys = {"fill", "label"}

\* The default of an optional key of the i-th entry.
DefaultOf(i, k) ==
    CASE k = "label" -> config["file"][i]["name"]
      [] k = "color" -> <<"str", "#000000">>
      [] k = "fill"  -> <<"none">>
      [] k = "scale" -> <<"float", "1.0">>

\* C2: when read returns, each optional key absent from an entry of the
\* input holds its default: label the entry's own name, color "#000000",
\* fill None, scale 1.0.
C2_AbsentKeysGetDefaults ==
    pc = "returned" =>
        \A i \in FileIdx : \A k \in OptionalFileKeys \ DOMAIN config["file"][i] :
            /\ k \in DOMAIN params["file"][i]
            /\ params["file"][i][k] = DefaultOf(i, k)

\* read returned and the second entry, whose name differs from the
\* first's, was given without a label and without a scale.
C2_Witness ==
    /\ pc = "returned"
    /\ Len(config["file"]) >= 2
    /\ config["file"][1]["name"] # config["file"][2]["name"]
    /\ DOMAIN config["file"][2] \cap OptionalFileKeys = {"color", "fill"}
    /\ params["file"][2]["label"] = config["file"][2]["name"]

\* C3: when read returns, each optional key given in an entry of the input
\* holds the given value.
C3_ExplicitValuesKept ==
    pc = "returned" =>
        \A i \in FileIdx : \A k \in OptionalFileKeys \cap DOMAIN config["file"][i] :
            /\ k \in DOMAIN params["file"][i]
            /\ params["file"][i][k] = config["file"][i][k]

\* read returned an entry given with all four optional keys, none at its
\* default, and another given with the scale 0.0 only.
C3_Witness ==
    /\ pc = "returned"
    /\ \E i \in FileIdx :
           /\ OptionalFileKeys \subseteq DOMAIN config["file"][i]
           /\ \A k \in OptionalFileKeys : config["file"][i][k] # DefaultOf(i, k)
    /\ \E i \in FileIdx :
           /\ DOMAIN config["file"][i] \cap OptionalFileKeys = {"scale"}
           /\ params["file"][i]["scale"] = <<"float", "0.0">>

\* C4: if read returns, the config has both sections, every `file` entry
\* has name and tree and every `plot` entry has name.
C4_ReturnImpliesRequired ==
    pc = "returned" => WellFormedFile /\ WellFormedPlot

\* The number of required fields the config misses.
MissingCount ==
    (IF HasFile
     THEN Cardinality({i \in FileIdx : "name" \notin DOMAIN config["file"][i]})
          + Cardinality({i \in FileIdx : "tree" \notin DOMAIN config["file"][i]})
     ELSE 1)
    + (IF HasPlot
       THEN Cardinality({i \in PlotIdx : "name" \notin DOMAIN config["plot"][i]})
       ELSE 1)

C5_WitnessEntries ==
    /\ pc = "exited"
    /\ HasFile /\ HasPlot
    /\ Len(config["file"]) = 3 /\ Len(config["plot"]) = 2
    /\ "tree" \notin DOMAIN config["file"][1]
    /\ "name" \notin DOMAIN config["plot"][2]

\* A `file` entry with a name and no tree.
NameNoTree(i) ==
    /\ "name" \in DOMAIN config["file"][i]
    /\ "tree" \notin DOMAIN config["file"][i]

C8_EmptyFileRejected ==
    (Checked /\ HasFile /\ config["file"] = <<>>) => pc = "exited"

\* C8 as amended: for a `file` key holding an empty sequence the check
\* prints nothing about file, and with a well-formed `plot` section read
\* returns the tree with its empty `file` sequence.
C8_EmptyFileAccepted ==
    (Checked /\ HasFile /\ config["file"] = <<>>) =>
        /\ \A n \in DOMAIN stdout :
              /\ LineParam(stdout[n]) # "file"
              /\ LineParent(stdout[n]) # "[[file]]"
        /\ WellFormedPlot =>
              /\ pc \in {"checked", "returned"}
              /\ exitStatus = 0
              /\ params = config

\* read returned a tree with an empty `file` sequence.
C8_Witness ==
    /\ pc = "returned"
    /\ HasFile /\ config["file"] = <<>>
    /\ params["file"] = <<>>
    /\ Len(params["plot"]) = 2

C9_WitnessClean ==
    /\ pc = "returned"
    /\ Len(config["file"]) = 3 /\ Len(config["plot"]) = 2
    /\ stdout = <<>>

\* C10: a config whose `plot` entries all have a name (and whose `file`
\* section is well-formed) passes the check with nothing printed, and the
\* `plot` sequence read returns is the parsed one: same entries, same
\* keys, same values, same order.
C10_PlotEntriesUntouched ==
    /\ (Checked /\ WellFormedFile /\ WellFormedPlot) =>
          pc \in {"checked", "returned"} /\ stdout = <<>>
    /\ pc = "returned" => params["plot"] = config["plot"]

\* read returned two plot entries, one with a name only and one with
\* extra keys.
C10_Witness ==
    /\ pc = "returned"
    /\ Len(config["plot"]) = 2
    /\ DOMAIN params["plot"][1] = {"name", "label", "nbins"}
    /\ DOMAIN params["plot"][2] = {"name"}
    /\ \E i \in FileIdx : OptionalFileKeys \cap DOMAIN config["file"][i] = {}

\* C11: once the check has printed a line for a missing field, the tree
\* stays as parsed (the fill pass writes no default) and read is not
\* left by the KeyError of an absent name.
C11_NoFillAfterReport ==
    (Checked /\ stdout # <<>>) => params = config /\ pc # "raised"

\* C12: for a path that cannot be read or a text that is not TOML, read
\* is left by the IOError or the TomlDecodeError: nothing is validated or
\* printed, no tree is bound, and sys.exit is not called.
C12_ReadFailurePropagates ==
    (source # "toml" /\ pc # "start") =>
        /\ pc = "raised"
        /\ error = (IF source = "unreadable" THEN "IOError" ELSE "TomlDecodeError")
        /\ stdout = <<>>
        /\ params = <<>>
        /\ exitStatus = 0

\* read was left by the parser's exception.
C12_Witness ==
    /\ source = "malformed"
    /\ pc = "raised"
    /\ error = "TomlDecodeError"

\* The objects the driver has written its handles into.
Overwritten ==
    {id \in DOMAIN heap :
        \E i \in DOMAIN heap[id]["file"] : heap[id]["file"][i]["tree"][1] # "str"}

\* C13: in a sequence of calls of read, what each call gave (return, exit
\* or exception, the lines printed, the tree returned) is what its file's
\* content gives; the trees of two calls are different objects, and a tree
\* the driver has not written into is still the tree that was returned.
C13_CallsIndependent ==
    /\ \A k \in DOMAIN journal :
          LET o == ReadOutcome(disk[journal[k].path])
          IN  /\ journal[k].kind = o.kind
              /\ journal[k].error = o.error
              /\ journal[k].out = o.out
              /\ journal[k].tree = o.tree
    /\ \A k, l \in DOMAIN journal :
          (k # l /\ journal[k].kind = "returned" /\ journal[l].kind = "returned")
              => journal[k].obj # journal[l].obj
    /\ \A k \in DOMAIN journal :
          (journal[k].kind = "returned" /\ journal[k].obj \notin Overwritten)
              => heap[journal[k].obj] = journal[k].tree

\* The same file was read twice, before and after the driver wrote its
\* handles into the first tree; the second tree holds the tree names.
C13_Witness ==
    /\ Len(journal) = 3
    /\ journal[1].path = journal[3].path
    /\ journal[1].kind = "returned" /\ journal[3].kind = "returned"
    /\ journal[1].obj \in Overwritten
    /\ journal[3].obj \notin Overwritten
    /\ heap[journal[3].obj] # heap[journal[1].obj]
    /\ journal[3].tree = journal[1].tree

\* C14: after FormatHistograms with a non-empty ytitle, the y-axis label of
\* every histogram is the ytitle followed by one suffix " / <bin width>
\* <units>" made from that histogram's bin width.
C14_YTitleSuffixedOnce ==
    (hcall.op = "FormatHistograms" /\ hcall.args.ytitle # <<>>) =>
        \A k \in DOMAIN hists :
            hists[k].ytitle =
                hcall.args.ytitle \o
                BinSuffix(hists[k].binWidth,
                          EffectiveUnits(hcall.args.units, hcall.args.xtitle))

\* C15: after FormatHistograms every histogram has the given xtitle_offset
\* as x-axis title offset and the given ytitle_offset as y-axis title
\* offset, and the x-axis title offset it had when no xtitle_offset is given.
C15_OffsetsOnTheirAxes ==
    hcall.op = "FormatHistograms" =>
        \A k \in DOMAIN hists :
            /\ Truthy(hcall.args.xtitle_offset) =>
                  hists[k].xoffset = hcall.args.xtitle_offset[2]
            /\ Truthy(hcall.args.ytitle_offset) =>
                  hists[k].yoffset = hcall.args.ytitle_offset[2]
            /\ hcall.args.xtitle_offset = None =>
                  hists[k].xoffset = hcall.before[k].xoffset

\* C16: after SetHistogramLine the line colour, width and style of the
\* histogram equal the arguments color, width and style.
C16_LineAttributesSet ==
    hcall.op = "SetHistogramLine" =>
        LET h == hists[hcall.args.hist]
        IN  /\ h.lineColor = hcall.args.color
            /\ h.lineWidth = hcall.args.width
            /\ h.lineStyle = hcall.args.style

\* C17: SetHistogramFill returns with the fill colour equal to the line
\* colour when no colour is given and to the given colour otherwise (in
\* both cases possibly as the transparent variant of that colour).
C17_FillColourSet ==
    hcall.op = "SetHistogramFill" =>
        LET h == hists[hcall.args.hist]
            c == IF hcall.args.color = None THEN h.lineColor
                 ELSE hcall.args.color[2]
        IN  /\ hcall.raised = "none"
            /\ h.fillColor \in {c, ColorTransparent(c, hcall.args.alpha)}

\* C18: GetTTree returns the tree for a .root file that holds it, returns
\* a chain for any other path (a directory), and exits with status 1 after
\* printing "Failed" for a .root file that cannot be opened or lacks the
\* tree; it is never left by an exception.
C18_GetTTreeOutcomes ==
    gtOut.kind # "none" =>
        /\ gtOut.kind \in {"returned", "exited"}
        /\ gtOut.kind = "exited" =>
              /\ gtOut.status = 1
              /\ \E n \in DOMAIN gtOut.out : gtOut.out[n] = "Failed"
        /\ IF EndsWith(gtCall.filename, DotRoot)
           THEN IF gtCall.path.kind = "rootfile"
                   /\ gtCall.treename \in gtCall.path.keys
                THEN gtOut.kind = "returned" /\ gtOut.tree = "TTree"
                ELSE gtOut.kind = "exited"
           ELSE gtOut.kind = "returned" /\ gtOut.tree = "TChain"

\* The number of entries the claim asks for: min(N, entries of the old tree).
Wanted ==
    LET n == slimIn.trim[2]
    IN  IF n < Len(slimIn.entries) THEN n ELSE Len(slimIn.entries)

\* The first k entries of a tree that has at least k.
First(entries, k) == [j \in 1 .. k |-> entries[j]]

Warned == \E k \in DOMAIN slim.out : slim.out[k] = "WARNING Attempting to trim"

\* C19: with -t N the new tree written holds exactly the first
\* min(N, entries) entries of the old tree in order, with a warning when N
\* exceeds the entries; without -t it holds all of them; the loop never
\* fills more than that and stops after that many fills.
C19_TrimKeepsFirstEntries ==
    /\ slim.pc = "loop" =>
          /\ slim.i <= (IF Wanted < 0 THEN 0 ELSE Wanted)
          /\ newtree = First(slimIn.entries, slim.i)
    /\ slim.pc \in {"written", "done"} =>
          /\ slim.written
          /\ IF slimIn.trim = None
             THEN newtree = slimIn.entries
             ELSE /\ newtree = First(slimIn.entries, Wanted)
                  /\ slim.i = Len(newtree)
                  /\ slimIn.trim[2] > Len(slimIn.entries) =>
                        Warned /\ newtree = slimIn.entries

\* A trimmed tree was written from an old tree with fewer entries than asked.
C19_Witness ==
    /\ slim.pc = "done"
    /\ slimIn.trim # None
    /\ slimIn.trim[2] > Len(slimIn.entries)
    /\ Len(newtree) = 2
    /\ Warned

\* C20: the output name is the -o value when given; otherwise the input name
\* with its final ".root" replaced by ".slim.root" when the input name ends
\* in ".root"; otherwise an error is printed and the program exits with
\* status 1 having opened and written no file.
C20_OutputNameChosen ==
    slim.pc # "start" =>
        IF slimIn.output # None
        THEN slim.outname = slimIn.output
        ELSE IF EndsWith(slimIn.input, DotRoot)
             THEN slim.outname =
                      SubSeq(slimIn.input, 1, Len(slimIn.input) - 5)
                          \o SlimRootText
             ELSE /\ slim.pc = "exited"
                  /\ slim.status = 1
                  /\ slim.out = <<"ERROR Problem getting output file name">>
                  /\ slim.opened = {}
                  /\ ~slim.written

\* The caller's histograms as a set, whatever the order or the wrapping.
RangeMembers ==
    IF rangeIn.kind = "list"
    THEN {rangeIn.items[i] : i \in DOMAIN rangeIn.items}
    ELSE {rangeIn.item}

\* C21: for a non-empty list of histograms, in whatever order it is
\* passed, GetMinimum returns the least of the histograms' minima and
\* GetMaximum the greatest of their maxima; a histogram passed on its own
\* gives its own minimum and maximum.
C21_LeastAndGreatest ==
    /\ rangeOut.op = "GetMinimum" =>
          /\ \A h \in RangeMembers : rangeOut.value <= h.minimum
          /\ \E h \in RangeMembers : rangeOut.value = h.minimum
    /\ rangeOut.op = "GetMaximum" =>
          /\ \A h \in RangeMembers : rangeOut.value >= h.maximum
          /\ \E h \in RangeMembers : rangeOut.value = h.maximum
    /\ (rangeOut.op # "none" /\ rangeIn.kind # "list") =>
          rangeOut.value \in {rangeIn.item.minimum, rangeIn.item.maximum}

\* GetMinimum was given a reordered list whose first histogram does not hold
\* the least minimum.
C21_Witness ==
    /\ rangeOut.op = "GetMinimum"
    /\ rangeIn.kind = "list"
    /\ Len(rangeIn.items) >= 2
    /\ rangeOut.passed # rangeIn
    /\ rangeOut.value < rangeOut.passed.items[1].minimum

====
